---- MODULE Spec2Model ----
(***************************************************************************)
(* s3cp.py: parallel ranged fetch of one S3 object with ordered            *)
(* concatenation into a staging file (or standard output).                 *)
(*                                                                         *)
(* The supervisor (main) and one process per segment (fetch_chunk) are     *)
(* modelled as a state machine.  Every step that touches shared state (a   *)
(* semaphore, the status dictionary, a file, the output stream) is one     *)
(* action.  The capacities are scaled down so that both semaphores run     *)
(* dry inside the explored sizes; the byte at offset i of the object has   *)
(* the value i, so that the destination's content identifies which bytes   *)
(* were written, in which order.                                           *)
(***************************************************************************)
EXTENDS Integers, Sequences, FiniteSets, TLC

\* ---------------------------------------------------------------------------
\* Program constants (s3cp.py:36-42), scaled down.
\* ---------------------------------------------------------------------------
MAX_CONCURRENT_REQUESTS == 2
MAX_PENDING_APPENDS == 3
MAX_SEGMENT_SIZE == 2

\* Significant bits of the 64-bit float that segment_start converts to.
FLOAT_MANT_DIG == 53

\* ---------------------------------------------------------------------------
\* Bounds of the model.
\* ---------------------------------------------------------------------------
\* Largest probed object size (bytes).
MaxFileSize == 7

\* Largest object size whose segment plan alone is computed.
MaxPlanSize == 44

\* ---------------------------------------------------------------------------
\* num_segments (s3cp.py:51-52)
\* ---------------------------------------------------------------------------
num_segments(size) == (size + MAX_SEGMENT_SIZE - 1) \div MAX_SEGMENT_SIZE

\* ---------------------------------------------------------------------------
\* 64-bit float arithmetic of segment_start (s3cp.py:56), on bit sequences
\* (most significant bit first) because the mantissa exceeds TLC's integers.
\* ---------------------------------------------------------------------------

\* 2^i modulo d, by repeated squaring.
RECURSIVE Pow2Mod(_, _)
Pow2Mod(i, d) ==
    IF i = 0 THEN 1 % d
    ELSE LET h == Pow2Mod(i \div 2, d)
         IN  (h * h * (IF i % 2 = 1 THEN 2 ELSE 1)) % d

\* Number of zero bits of the binary expansion of r/d (0 < r < d) before its
\* first one bit.
RECURSIVE LeadZeros(_, _)
LeadZeros(r, d) == IF 2 * r >= d THEN 0 ELSE 1 + LeadZeros(2 * r, d)

\* The remainder left after k bits of the binary expansion of r/d (0 <= r < d).
ExpansionRem(r, d, k) == (r * Pow2Mod(k, d)) % d

\* The first k bits of the binary expansion of r/d (0 <= r < d).
ExpansionBits(r, d, k) ==
    [i \in 1..k |-> (2 * ExpansionRem(r, d, i - 1)) \div d]

AllOnes(bits) == \A i \in 1..Len(bits) : bits[i] = 1

Zeros(k) == [i \in 1..k |-> 0]

\* bits + 1, as a bit sequence of the same length; an all-ones input wraps to
\* all zeros (the caller prepends the carry).
IncBits(bits) ==
    IF AllOnes(bits) THEN Zeros(Len(bits))
    ELSE LET j == CHOOSE i \in 1..Len(bits) :
                      /\ bits[i] = 0
                      /\ \A l \in (i + 1)..Len(bits) : bits[l] = 1
         IN  [i \in 1..Len(bits) |->
                 IF i < j THEN bits[i] ELSE IF i = j THEN 1 ELSE 0]

\* Round a bit sequence whose first bit is 1 to FLOAT_MANT_DIG significant
\* bits, ties to even; the result keeps the scale of the input (dropped
\* positions become zeros) and may be one bit longer.
RoundBits(bits) ==
    IF Len(bits) <= FLOAT_MANT_DIG THEN bits
    ELSE LET kept   == SubSeq(bits, 1, FLOAT_MANT_DIG)
             rest   == SubSeq(bits, FLOAT_MANT_DIG + 1, Len(bits))
             guard  == rest[1]
             sticky == \E i \in 2..Len(rest) : rest[i] = 1
             up     == guard = 1 /\ (sticky \/ kept[FLOAT_MANT_DIG] = 1)
             pad    == Zeros(Len(rest))
         IN  IF ~up THEN kept \o pad
             ELSE IF AllOnes(kept) THEN <<1>> \o Zeros(FLOAT_MANT_DIG) \o pad
             ELSE IncBits(kept) \o pad

\* float(n) / float(N) for 0 < n < N: the quotient rounded to FLOAT_MANT_DIG
\* bits, ties to even.  The value is the bit sequence m read as an integer,
\* times 2^-frac.
FloatDiv(n, N) ==
    LET z    == LeadZeros(n, N)
        r0   == ExpansionRem(n, N, z)
        bits == ExpansionBits(r0, N, FLOAT_MANT_DIG)
        rem  == ExpansionRem(r0, N, FLOAT_MANT_DIG)
        up   == 2 * rem > N \/ (2 * rem = N /\ bits[FLOAT_MANT_DIG] = 1)
    IN  IF ~up THEN [m |-> bits, frac |-> z + FLOAT_MANT_DIG]
        ELSE IF AllOnes(bits)
             THEN [m |-> <<1>> \o Zeros(FLOAT_MANT_DIG), frac |-> z + FLOAT_MANT_DIG]
             ELSE [m |-> IncBits(bits), frac |-> z + FLOAT_MANT_DIG]

\* A natural number as a bit sequence without leading zeros.
RECURSIVE ToBits(_)
ToBits(v) == IF v = 0 THEN <<>> ELSE ToBits(v \div 2) \o <<v % 2>>

\* The low w bits of a natural number.
LowBits(v, w) == [i \in 1..w |-> (v \div (2 ^ (w - i))) % 2]

\* A short bit sequence as a natural number.
RECURSIVE FromBits(_)
FromBits(bits) ==
    IF bits = <<>> THEN 0
    ELSE 2 * FromBits(SubSeq(bits, 1, Len(bits) - 1)) + bits[Len(bits)]

\* c * bits + carryIn (c a small natural number): the low Len(bits) bits of
\* the result, and what exceeds them as a natural number.  Runs of up to 8
\* bits are multiplied as integers.
RECURSIVE MulBits(_, _, _)
MulBits(bits, c, carryIn) ==
    IF Len(bits) <= 8
    THEN LET t == c * FromBits(bits) + carryIn
         IN  [high |-> t \div (2 ^ Len(bits)), low |-> LowBits(t, Len(bits))]
    ELSE LET h  == Len(bits) \div 2
             lo == MulBits(SubSeq(bits, h + 1, Len(bits)), c, carryIn)
             hi == MulBits(SubSeq(bits, 1, h), c, lo.high)
         IN  [high |-> hi.high, low |-> hi.low \o lo.low]

\* int(size * q) for a float q = FloatDiv(n, N): the exact product (its first
\* bit is 1, as the first bit of q.m is), rounded to a float, truncated to an
\* integer.
FloatMulInt(size, q) ==
    LET p       == MulBits(q.m, size, 0)
        exact   == ToBits(p.high) \o p.low
        rounded == RoundBits(exact)
    IN  IF Len(rounded) <= q.frac THEN 0
        ELSE FromBits(SubSeq(rounded, 1, Len(rounded) - q.frac))

\* ---------------------------------------------------------------------------
\* segment_start (s3cp.py:54-56)
\* ---------------------------------------------------------------------------
segment_start(n, N, size) ==
    IF n = 0 \/ size = 0 THEN 0
    ELSE IF n = N THEN size
    ELSE FloatMulInt(size, FloatDiv(n, N))

\* segment_start(n, num_segments(size), size) for the sizes within the bounds,
\* tabulated so that the float arithmetic is done once per size and index.
SegmentStarts ==
    [size \in 0..(IF MaxFileSize > MaxPlanSize THEN MaxFileSize
                  ELSE MaxPlanSize) |->
        [n \in 0..num_segments(size) |->
            segment_start(n, num_segments(size), size)]]

\* segment_start(n, N, size), read from the table where the table has it.
SegmentStart(n, N, size) ==
    IF size \in DOMAIN SegmentStarts /\ N = num_segments(size)
           /\ n \in DOMAIN SegmentStarts[size]
    THEN SegmentStarts[size][n]
    ELSE segment_start(n, N, size)

\* The bytes that the ranged GET of fetch_chunk for segment n delivers
\* (s3cp.py:99-103, 110-111): offsets first..last of the object, the byte at
\* offset i having the value i.
RangeBytes(n, N, size) ==
    LET first == SegmentStart(n, N, size)
        last  == SegmentStart(n + 1, N, size) - 1
    IN  [i \in 1..(last - first + 1) |-> first + i - 1]

\* The whole object.
ObjectBytes(size) == [i \in 1..size |-> i - 1]

\* ---------------------------------------------------------------------------
\* State
\* ---------------------------------------------------------------------------
VARIABLES
    file_size,          \* get_file_size(s3_uri), s3cp.py:150
    destination,        \* "-" (streaming) or a file path
    mpc,                \* main: the line it is at
    n_loop,             \* main: the loop variable n of line 166
    error,              \* main: local of lines 167-185
    timeout,            \* main: local of lines 168-185
    last_semaphore,     \* main: {} is None, {k} the token of segment k
    requests_semaphore, \* value of the semaphore of line 155
    appends_semaphore,  \* value of the semaphore of line 156
    token,              \* token[k]: value of next_semaphore of segment k
    status,             \* status[k] for k >= 0; "absent" is a missing key
    first_failure,      \* status[-1]: {} is a missing key, {k} the value k
    pc,                 \* pc[k]: the line process k is at
    released,           \* released[k]: local of fetch_chunk
    segment_bytes,      \* segment_bytes[k]: local of fetch_chunk (line 111)
    task_last,          \* task_last[k]: fetch_chunk's argument last_semaphore
    fh,                 \* fh[k]: the file the open handle of process k is on
    buf,                \* buf[k]: process k's copy of the sys.stdout buffer
    staging,            \* the file at destination + ".download"
    final,              \* the file at destination
    stdout,             \* the bytes emitted on standard output
    req_releases,       \* req_releases[k]: releases of the request slot by k
    app_releases,       \* app_releases[k]: releases of the buffer slot by k
    wstate              \* wstate[k]: the write of segment k to the destination:
                        \* "none", "writing", "done" or "failed"

vars == <<file_size, destination, mpc, n_loop, error, timeout, last_semaphore,
          requests_semaphore, appends_semaphore, token, status, first_failure,
          pc, released, segment_bytes, task_last, fh, buf, staging, final,
          stdout,
          req_releases, app_releases, wstate>>

mainVars == <<mpc, n_loop, error, timeout, last_semaphore>>
fileVars == <<staging, final, stdout>>
ghostVars == <<req_releases, app_releases, wstate>>

NumSegs == num_segments(file_size)
Segs == 0..(NumSegs - 1)

Absent == [exists |-> FALSE, data |-> <<>>]
File(bytes) == [exists |-> TRUE, data |-> bytes]

\* Content left at the staging path by an earlier, interrupted run.
StaleBytes == <<255>>

FILE_DESTINATION == "out.bin"

\* ---------------------------------------------------------------------------
\* Initial state: main has probed the size and created the shared objects
\* (s3cp.py:149-159).
\* ---------------------------------------------------------------------------
Init ==
    /\ file_size \in 0..MaxFileSize
    /\ destination \in {"-", FILE_DESTINATION}
    /\ mpc = "l160"
    /\ n_loop = 0
    /\ error = FALSE
    /\ timeout = FALSE
    /\ last_semaphore = {}
    /\ requests_semaphore = MAX_CONCURRENT_REQUESTS
    /\ appends_semaphore = MAX_PENDING_APPENDS
    /\ token = [k \in Segs |-> 0]
    /\ status = [k \in Segs |-> "absent"]
    /\ first_failure = {}
    /\ pc = [k \in Segs |-> "unborn"]
    /\ released = [k \in Segs |-> FALSE]
    /\ segment_bytes = [k \in Segs |-> <<>>]
    /\ task_last = [k \in Segs |-> {}]
    /\ fh = [k \in Segs |-> "none"]
    /\ buf = [k \in Segs |-> <<>>]
    /\ staging \in (IF destination = "-" THEN {Absent}
                    ELSE {Absent, File(StaleBytes)})
    /\ final \in (IF destination = "-" THEN {Absent}
                  ELSE {Absent, File(ObjectBytes(file_size))})
    /\ stdout = <<>>
    /\ req_releases = [k \in Segs |-> 0]
    /\ app_releases = [k \in Segs |-> 0]
    /\ wstate = [k \in Segs |-> "none"]

\* ---------------------------------------------------------------------------
\* set_state (s3cp.py:71-87)
\* ---------------------------------------------------------------------------

\* Mutant of PriorErrorsRaised: 'succeeded' is let through after a failure.
PriorErrorsRaised_SucceededPasses(state, ff) ==
    state \notin {"failed", "succeeded"} /\ ff # {}

\* Mutant of PriorErrorsRaised: 'concatenating' is let through after a
\* failure.
PriorErrorsRaised_ConcatenatingPasses(state, ff) ==
    state \notin {"failed", "concatenating"} /\ ff # {}

\* Line 75: does set_state raise PriorErrors?
PriorErrorsRaised(state, ff) == state # "failed" /\ ff # {}

\* Mutant of NextFirstFailure: every 'failed' overwrites status[-1].
NextFirstFailure_LastWins(k, state, ff) ==
    IF state = "failed" THEN {k} ELSE ff

\* Lines 80-82: status[-1] after a set_state that does not raise.
NextFirstFailure(k, state, ff) ==
    IF state = "failed" /\ ff = {} THEN {k} ELSE ff

\* set_state(status, k, state, lock) by process k, which continues at okpc,
\* or at raisepc when PriorErrors is raised.
set_state(k, state, okpc, raisepc) ==
    IF PriorErrorsRaised(state, first_failure)
    THEN /\ pc' = [pc EXCEPT ![k] = raisepc]
         /\ UNCHANGED <<status, first_failure>>
    ELSE /\ first_failure' = NextFirstFailure(k, state, first_failure)
         /\ status' = [status EXCEPT ![k] = state]
         /\ pc' = [pc EXCEPT ![k] = okpc]

\* len(status)
StatusLen ==
    Cardinality({k \in Segs : status[k] # "absent"}) + Cardinality(first_failure)

\* ---------------------------------------------------------------------------
\* main (s3cp.py:148-204)
\* ---------------------------------------------------------------------------

\* Lines 160-165: choose the download path, remove a stale staging file.
main_l160 ==
    /\ mpc = "l160"
    /\ staging' = IF destination = "-" THEN staging ELSE Absent
    /\ mpc' = IF n_loop < NumSegs THEN "l170" ELSE "l194"
    /\ UNCHANGED <<file_size, destination, n_loop, error, timeout,
                   last_semaphore, requests_semaphore, appends_semaphore,
                   token, status, first_failure, pc, released, segment_bytes,
                   task_last, fh, buf, final, stdout, ghostVars>>

\* Mutant of main_l170_acquire: main goes on without taking a request slot.
main_l170_acquire_NoSlotTaken ==
    /\ mpc = "l170"
    /\ ~error /\ ~timeout
    /\ mpc' = "l178"
    /\ UNCHANGED <<file_size, destination, n_loop, error, timeout,
                   last_semaphore, requests_semaphore, appends_semaphore,
                   token, status, first_failure, pc, released, segment_bytes,
                   task_last, fh, buf, fileVars, ghostVars>>

\* Line 170: requests_semaphore.acquire succeeds within its timeout.
main_l170_acquire ==
    /\ mpc = "l170"
    /\ ~error /\ ~timeout
    /\ requests_semaphore > 0
    /\ requests_semaphore' = requests_semaphore - 1
    /\ mpc' = "l178"
    /\ UNCHANGED <<file_size, destination, n_loop, error, timeout,
                   last_semaphore, appends_semaphore, token, status,
                   first_failure, pc, released, segment_bytes, task_last, fh,
                   buf, fileVars, ghostVars>>

\* Lines 170-171: the acquire times out (no slot for a second); the watchdog
\* deadline has passed or not.
main_l170_poll ==
    /\ mpc = "l170"
    /\ ~error /\ ~timeout
    /\ requests_semaphore = 0
    /\ timeout' \in BOOLEAN
    /\ mpc' = "l172"
    /\ UNCHANGED <<file_size, destination, n_loop, error, last_semaphore,
                   requests_semaphore, appends_semaphore, token, status,
                   first_failure, pc, released, segment_bytes, task_last, fh,
                   buf, fileVars, ghostVars>>

\* Mutant of main_l172: the flag is not read, `error` stays false.
main_l172_NoRead ==
    /\ mpc = "l172"
    /\ error' = FALSE
    /\ mpc' = "l170"
    /\ UNCHANGED <<file_size, destination, n_loop, timeout, last_semaphore,
                   requests_semaphore, appends_semaphore, token, status,
                   first_failure, pc, released, segment_bytes, task_last, fh,
                   buf, fileVars, ghostVars>>

\* Lines 172-173: read status[-1] under the lock.
main_l172 ==
    /\ mpc = "l172"
    /\ error' = (first_failure # {})
    /\ mpc' = "l170"
    /\ UNCHANGED <<file_size, destination, n_loop, timeout, last_semaphore,
                   requests_semaphore, appends_semaphore, token, status,
                   first_failure, pc, released, segment_bytes, task_last, fh,
                   buf, fileVars, ghostVars>>

\* Lines 170, 174-177: the loop ends on error or timeout, main breaks.
main_l176_break ==
    /\ mpc = "l170"
    /\ error \/ timeout
    /\ mpc' = "l194"
    /\ UNCHANGED <<file_size, destination, n_loop, error, timeout,
                   last_semaphore, requests_semaphore, appends_semaphore,
                   token, status, first_failure, pc, released, segment_bytes,
                   task_last, fh, buf, fileVars, ghostVars>>

\* Line 178: appends_semaphore.acquire succeeds within its timeout.
main_l178_acquire ==
    /\ mpc = "l178"
    /\ ~error /\ ~timeout
    /\ appends_semaphore > 0
    /\ appends_semaphore' = appends_semaphore - 1
    /\ mpc' = "l186"
    /\ UNCHANGED <<file_size, destination, n_loop, error, timeout,
                   last_semaphore, requests_semaphore, token, status,
                   first_failure, pc, released, segment_bytes, task_last, fh,
                   buf, fileVars, ghostVars>>

\* Lines 178-179: the acquire times out.
main_l178_poll ==
    /\ mpc = "l178"
    /\ ~error /\ ~timeout
    /\ appends_semaphore = 0
    /\ timeout' \in BOOLEAN
    /\ mpc' = "l180"
    /\ UNCHANGED <<file_size, destination, n_loop, error, last_semaphore,
                   requests_semaphore, appends_semaphore, token, status,
                   first_failure, pc, released, segment_bytes, task_last, fh,
                   buf, fileVars, ghostVars>>

\* Lines 180-181: read status[-1] under the lock.
main_l180 ==
    /\ mpc = "l180"
    /\ error' = (first_failure # {})
    /\ mpc' = "l178"
    /\ UNCHANGED <<file_size, destination, n_loop, timeout, last_semaphore,
                   requests_semaphore, appends_semaphore, token, status,
                   first_failure, pc, released, segment_bytes, task_last, fh,
                   buf, fileVars, ghostVars>>

\* Lines 178, 182-185: the loop ends on error or timeout, main breaks (the
\* request slot acquired at line 170 is not given back).
main_l184_break ==
    /\ mpc = "l178"
    /\ error \/ timeout
    /\ mpc' = "l194"
    /\ UNCHANGED <<file_size, destination, n_loop, error, timeout,
                   last_semaphore, requests_semaphore, appends_semaphore,
                   token, status, first_failure, pc, released, segment_bytes,
                   task_last, fh, buf, fileVars, ghostVars>>

\* Lines 186-192 and 166-169: create the token (value 0 after its acquire),
\* start the process, remember the token, go to the next iteration.
main_l186_spawn ==
    /\ mpc = "l186"
    /\ token' = [token EXCEPT ![n_loop] = 0]
    /\ pc' = [pc EXCEPT ![n_loop] = "l104"]
    /\ task_last' = [task_last EXCEPT ![n_loop] = last_semaphore]
    /\ last_semaphore' = {n_loop}
    /\ n_loop' = n_loop + 1
    /\ error' = FALSE
    /\ timeout' = FALSE
    /\ mpc' = IF n_loop + 1 < NumSegs THEN "l170" ELSE "l194"
    /\ UNCHANGED <<file_size, destination, requests_semaphore,
                   appends_semaphore, status, first_failure, released,
                   segment_bytes, fh, buf, fileVars, ghostVars>>

\* Line 194 with last_semaphore = None: AttributeError, main dies with a
\* traceback (lines 212-214) before the finalization.
main_l194_none ==
    /\ mpc = "l194"
    /\ last_semaphore = {}
    /\ mpc' = "crashed"
    /\ UNCHANGED <<file_size, destination, n_loop, error, timeout,
                   last_semaphore, requests_semaphore, appends_semaphore,
                   token, status, first_failure, pc, released, segment_bytes,
                   task_last, fh, buf, fileVars, ghostVars>>

\* Line 194: last_semaphore.acquire() returns.
main_l194_acquire ==
    /\ mpc = "l194"
    /\ \E k \in last_semaphore :
          /\ token[k] > 0
          /\ token' = [token EXCEPT ![k] = token[k] - 1]
    /\ mpc' = "l195"
    /\ UNCHANGED <<file_size, destination, n_loop, error, timeout,
                   last_semaphore, requests_semaphore, appends_semaphore,
                   status, first_failure, pc, released, segment_bytes,
                   task_last, fh, buf, fileVars, ghostVars>>

\* Line 195: the success test.
AllSucceeded ==
    /\ StatusLen = NumSegs
    /\ first_failure = {}
    /\ \A k \in Segs : status[k] # "absent" => status[k] = "succeeded"

\* Lines 195-198: success; a file destination is renamed into place, and the
\* handles open on the staging file follow it (os.rename of a missing file
\* raises, and main dies with a traceback).
main_l196_success ==
    /\ mpc = "l195"
    /\ AllSucceeded
    /\ IF destination = "-"
       THEN /\ mpc' = "done_ok"
            /\ UNCHANGED <<staging, final, fh>>
       ELSE IF staging.exists
       THEN /\ final' = staging
            /\ staging' = Absent
            /\ fh' = [k \in Segs |-> IF fh[k] = "staging" THEN "final" ELSE fh[k]]
            /\ mpc' = "done_ok"
       ELSE /\ mpc' = "crashed"
            /\ UNCHANGED <<staging, final, fh>>
    /\ UNCHANGED <<file_size, destination, n_loop, error, timeout,
                   last_semaphore, requests_semaphore, appends_semaphore,
                   token, status, first_failure, pc, released, segment_bytes,
                   task_last, buf, stdout, ghostVars>>

\* Lines 199-204: failure; the staging file is removed (handles open on it
\* keep the unlinked file), exit status -1.
main_l201_failure ==
    /\ mpc = "l195"
    /\ ~AllSucceeded
    /\ IF destination = "-"
       THEN UNCHANGED <<staging, fh>>
       ELSE /\ staging' = Absent
            /\ fh' = [k \in Segs |-> IF fh[k] = "staging" THEN "unlinked" ELSE fh[k]]
    /\ mpc' = "done_fail"
    /\ UNCHANGED <<file_size, destination, n_loop, error, timeout,
                   last_semaphore, requests_semaphore, appends_semaphore,
                   token, status, first_failure, pc, released, segment_bytes,
                   task_last, buf, final, stdout, ghostVars>>


\* ---------------------------------------------------------------------------
\* fetch_chunk (s3cp.py:96-135), process k
\* ---------------------------------------------------------------------------

taskUnchanged == <<file_size, destination, mainVars, task_last>>
bytesUnchanged == <<taskUnchanged, segment_bytes>>

\* Line 104: set_state 'removing temporary file'.
fetch_chunk_l104(k) ==
    /\ pc[k] = "l104"
    /\ set_state(k, "removing temporary file", "l107", "l131")
    /\ UNCHANGED <<bytesUnchanged, requests_semaphore, appends_semaphore,
                   token, released, fh, buf, fileVars, ghostVars>>

\* Line 107: set_state 'fetching'.
fetch_chunk_l107(k) ==
    /\ pc[k] = "l107"
    /\ set_state(k, "fetching", "l109", "l131")
    /\ UNCHANGED <<bytesUnchanged, requests_semaphore, appends_semaphore,
                   token, released, fh, buf, fileVars, ghostVars>>

\* Lines 108-113: the ranged GET completes and delivers its range.
fetch_chunk_l109_ok(k) ==
    /\ pc[k] = "l109"
    /\ segment_bytes' = [segment_bytes EXCEPT
                             ![k] = RangeBytes(k, NumSegs, file_size)]
    /\ pc' = [pc EXCEPT ![k] = "l114"]
    /\ UNCHANGED <<taskUnchanged, requests_semaphore, appends_semaphore,
                   token, status, first_failure, released, fh, buf, fileVars,
                   ghostVars>>

\* Lines 105-113: mkfifo, the subprocess or the GET fails; the exception
\* is caught at line 128.
fetch_chunk_l109_error(k) ==
    /\ pc[k] = "l109"
    /\ pc' = [pc EXCEPT ![k] = "l129"]
    /\ UNCHANGED <<bytesUnchanged, requests_semaphore, appends_semaphore,
                   token, status, first_failure, released, fh, buf, fileVars,
                   ghostVars>>

\* Mutant of fetch_chunk_l114: the request slot is kept until the finally
\* clause.
fetch_chunk_l114_KeepsSlot(k) ==
    /\ pc[k] = "l114"
    /\ pc' = [pc EXCEPT ![k] = IF task_last[k] # {} THEN "l118" ELSE "l120"]
    /\ UNCHANGED <<bytesUnchanged, requests_semaphore, appends_semaphore,
                   token, status, first_failure, released, fh, buf, fileVars,
                   ghostVars>>

\* Lines 114-117: released = True, release the request slot.
fetch_chunk_l114(k) ==
    /\ pc[k] = "l114"
    /\ released' = [released EXCEPT ![k] = TRUE]
    /\ requests_semaphore' = requests_semaphore + 1
    /\ req_releases' = [req_releases EXCEPT ![k] = req_releases[k] + 1]
    /\ pc' = [pc EXCEPT ![k] = IF task_last[k] # {} THEN "l118" ELSE "l120"]
    /\ UNCHANGED <<bytesUnchanged, appends_semaphore, token, status,
                   first_failure, fh, buf, fileVars, app_releases, wstate>>

\* Line 118: set_state 'waiting for part k-1 to finish'.
fetch_chunk_l118(k) ==
    /\ pc[k] = "l118"
    /\ set_state(k, "waiting", "l119", "l131")
    /\ UNCHANGED <<bytesUnchanged, requests_semaphore, appends_semaphore,
                   token, released, fh, buf, fileVars, ghostVars>>

\* Line 119: last_semaphore.acquire().
fetch_chunk_l119(k) ==
    /\ pc[k] = "l119"
    /\ \E p \in task_last[k] :
          /\ token[p] > 0
          /\ token' = [token EXCEPT ![p] = token[p] - 1]
    /\ pc' = [pc EXCEPT ![k] = "l120"]
    /\ UNCHANGED <<bytesUnchanged, requests_semaphore, appends_semaphore,
                   status, first_failure, released, fh, buf, fileVars,
                   ghostVars>>

\* Line 120: set_state 'concatenating'.
fetch_chunk_l120(k) ==
    /\ pc[k] = "l120"
    /\ set_state(k, "concatenating",
                 IF destination = "-" THEN "l122" ELSE "l124", "l131")
    /\ UNCHANGED <<bytesUnchanged, requests_semaphore, appends_semaphore,
                   token, released, fh, buf, fileVars, ghostVars>>

\* Lines 122, 68-69: stream_chunk; the segment is smaller than the buffer
\* that line 161 gives sys.stdout, so the bytes stay in this process's
\* buffer until the process exits.
stream_chunk(k) ==
    /\ pc[k] = "l122"
    /\ buf' = [buf EXCEPT ![k] = buf[k] \o segment_bytes[k]]
    /\ pc' = [pc EXCEPT ![k] = "l125"]
    /\ UNCHANGED <<bytesUnchanged, requests_semaphore, appends_semaphore,
                   token, status, first_failure, released, fh, fileVars,
                   ghostVars>>

\* Mutant of concatenate_chunk_open: the process is handed the final path
\* instead of the staging path.
concatenate_chunk_open_FinalPath(k) ==
    /\ pc[k] = "l124"
    /\ final' = IF final.exists THEN final ELSE [exists |-> TRUE, data |-> <<>>]
    /\ fh' = [fh EXCEPT ![k] = "final"]
    /\ wstate' = [wstate EXCEPT ![k] = "writing"]
    /\ pc' = [pc EXCEPT ![k] = "l66"]
    /\ UNCHANGED <<bytesUnchanged, requests_semaphore, appends_semaphore,
                   token, status, first_failure, released, buf, staging,
                   stdout, req_releases, app_releases>>

\* Lines 124, 65: concatenate_chunk opens the file for append, creating it
\* when it does not exist.
concatenate_chunk_open(k) ==
    /\ pc[k] = "l124"
    /\ staging' = IF staging.exists THEN staging ELSE File(<<>>)
    /\ fh' = [fh EXCEPT ![k] = "staging"]
    /\ wstate' = [wstate EXCEPT ![k] = "writing"]
    /\ pc' = [pc EXCEPT ![k] = "l66"]
    /\ UNCHANGED <<bytesUnchanged, requests_semaphore, appends_semaphore,
                   token, status, first_failure, released, buf, final, stdout,
                   req_releases, app_releases>>

\* The file an open handle is on, after appending bytes to it.
Appended(f, bytes) == [exists |-> f.exists, data |-> f.data \o bytes]

\* Lines 66: write and close; the bytes go to the file the handle is on.
concatenate_chunk_write(k) ==
    /\ pc[k] = "l66"
    /\ LET bytes == segment_bytes[k]
       IN  /\ staging' = IF fh[k] = "staging" THEN Appended(staging, bytes)
                         ELSE staging
           /\ final' = IF fh[k] = "final" THEN Appended(final, bytes) ELSE final
    /\ fh' = [fh EXCEPT ![k] = "none"]
    /\ wstate' = [wstate EXCEPT ![k] = "done"]
    /\ pc' = [pc EXCEPT ![k] = "l125"]
    /\ UNCHANGED <<bytesUnchanged, requests_semaphore, appends_semaphore,
                   token, status, first_failure, released, buf, stdout,
                   req_releases, app_releases>>

\* Line 66 fails (disk full, I/O error) after a proper prefix of the segment
\* has reached the file; the exception is caught at line 128.
concatenate_chunk_error(k) ==
    /\ pc[k] = "l66"
    /\ \E len \in 0..(Len(segment_bytes[k]) - 1) :
          LET bytes == SubSeq(segment_bytes[k], 1, len)
          IN  /\ staging' = IF fh[k] = "staging" THEN Appended(staging, bytes)
                            ELSE staging
              /\ final' = IF fh[k] = "final" THEN Appended(final, bytes)
                          ELSE final
    /\ fh' = [fh EXCEPT ![k] = "none"]
    /\ wstate' = [wstate EXCEPT ![k] = "failed"]
    /\ pc' = [pc EXCEPT ![k] = "l129"]
    /\ UNCHANGED <<bytesUnchanged, requests_semaphore, appends_semaphore,
                   token, status, first_failure, released, buf, stdout,
                   req_releases, app_releases>>

\* Line 125: set_state 'succeeded'; PriorErrors is caught at line 126.
fetch_chunk_l125(k) ==
    /\ pc[k] = "l125"
    /\ set_state(k, "succeeded", "l131", "l131")
    /\ UNCHANGED <<bytesUnchanged, requests_semaphore, appends_semaphore,
                   token, released, fh, buf, fileVars, ghostVars>>

\* Line 129: set_state 'failed'.
fetch_chunk_l129(k) ==
    /\ pc[k] = "l129"
    /\ set_state(k, "failed", "l131", "l131")
    /\ UNCHANGED <<bytesUnchanged, requests_semaphore, appends_semaphore,
                   token, released, fh, buf, fileVars, ghostVars>>

\* Mutant of FinallyReleasesRequest: the finally clause ignores `released`.
FinallyReleasesRequest_Always(rel) == TRUE

\* Line 131: must the finally clause release the request slot?
FinallyReleasesRequest(rel) == ~rel

\* Lines 131-133: release the request slot unless line 115 has.
fetch_chunk_l131(k) ==
    /\ pc[k] = "l131"
    /\ IF FinallyReleasesRequest(released[k])
       THEN /\ requests_semaphore' = requests_semaphore + 1
            /\ req_releases' = [req_releases EXCEPT ![k] = req_releases[k] + 1]
       ELSE UNCHANGED <<requests_semaphore, req_releases>>
    /\ pc' = [pc EXCEPT ![k] = "l134"]
    /\ UNCHANGED <<bytesUnchanged, appends_semaphore, token, status,
                   first_failure, released, fh, buf, fileVars, app_releases,
                   wstate>>

\* Mutant of fetch_chunk_l134: the buffer slot is released twice.
fetch_chunk_l134_Twice(k) ==
    /\ pc[k] = "l134"
    /\ appends_semaphore' = appends_semaphore + 2
    /\ app_releases' = [app_releases EXCEPT ![k] = app_releases[k] + 2]
    /\ pc' = [pc EXCEPT ![k] = "l135"]
    /\ UNCHANGED <<bytesUnchanged, requests_semaphore, token, status,
                   first_failure, released, fh, buf, fileVars, req_releases,
                   wstate>>

\* Line 134: release the buffer slot.
fetch_chunk_l134(k) ==
    /\ pc[k] = "l134"
    /\ appends_semaphore' = appends_semaphore + 1
    /\ app_releases' = [app_releases EXCEPT ![k] = app_releases[k] + 1]
    /\ pc' = [pc EXCEPT ![k] = "l135"]
    /\ UNCHANGED <<bytesUnchanged, requests_semaphore, token, status,
                   first_failure, released, fh, buf, fileVars, req_releases,
                   wstate>>

\* Mutant of fetch_chunk_l135: fetch_chunk returns without releasing its
\* token.
fetch_chunk_l135_NoSignal(k) ==
    /\ pc[k] = "l135"
    /\ pc' = [pc EXCEPT ![k] = IF buf[k] = <<>> THEN "exited" ELSE "returned"]
    /\ UNCHANGED <<bytesUnchanged, requests_semaphore, appends_semaphore,
                   token, status, first_failure, released, fh, buf, fileVars,
                   ghostVars>>

\* Line 135: release the own token; fetch_chunk returns.  A process with
\* nothing in its output buffer has nothing left to do.
fetch_chunk_l135(k) ==
    /\ pc[k] = "l135"
    /\ token' = [token EXCEPT ![k] = token[k] + 1]
    /\ pc' = [pc EXCEPT ![k] = IF buf[k] = <<>> THEN "exited" ELSE "returned"]
    /\ UNCHANGED <<bytesUnchanged, requests_semaphore, appends_semaphore,
                   status, first_failure, released, fh, buf, fileVars,
                   ghostVars>>

\* Lines 188-191: the process started here ends after fetch_chunk has
\* returned, and the runtime flushes its sys.stdout buffer on the way out.
process_exit(k) ==
    /\ pc[k] = "returned"
    /\ stdout' = stdout \o buf[k]
    /\ buf' = [buf EXCEPT ![k] = <<>>]
    /\ wstate' = [wstate EXCEPT ![k] = "done"]
    /\ pc' = [pc EXCEPT ![k] = "exited"]
    /\ UNCHANGED <<bytesUnchanged, requests_semaphore, appends_semaphore,
                   token, status, first_failure, released, fh, staging, final,
                   req_releases, app_releases>>

\* ---------------------------------------------------------------------------
\* Specification
\* ---------------------------------------------------------------------------
Next ==
    \/ main_l160
    \/ main_l170_acquire
    \/ main_l170_poll
    \/ main_l172
    \/ main_l176_break
    \/ main_l178_acquire
    \/ main_l178_poll
    \/ main_l180
    \/ main_l184_break
    \/ main_l186_spawn
    \/ main_l194_none
    \/ main_l194_acquire
    \/ main_l196_success
    \/ main_l201_failure
    \/ \E k \in Segs : fetch_chunk_l104(k)
    \/ \E k \in Segs : fetch_chunk_l107(k)
    \/ \E k \in Segs : fetch_chunk_l109_ok(k)
    \/ \E k \in Segs : fetch_chunk_l109_error(k)
    \/ \E k \in Segs : fetch_chunk_l114(k)
    \/ \E k \in Segs : fetch_chunk_l118(k)
    \/ \E k \in Segs : fetch_chunk_l119(k)
    \/ \E k \in Segs : fetch_chunk_l120(k)
    \/ \E k \in Segs : stream_chunk(k)
    \/ \E k \in Segs : concatenate_chunk_open(k)
    \/ \E k \in Segs : concatenate_chunk_write(k)
    \/ \E k \in Segs : concatenate_chunk_error(k)
    \/ \E k \in Segs : fetch_chunk_l125(k)
    \/ \E k \in Segs : fetch_chunk_l129(k)
    \/ \E k \in Segs : fetch_chunk_l131(k)
    \/ \E k \in Segs : fetch_chunk_l134(k)
    \/ \E k \in Segs : fetch_chunk_l135(k)
    \/ \E k \in Segs : process_exit(k)

Spec == Init /\ [][Next]_vars


\* ---------------------------------------------------------------------------
\* Vocabulary of the properties
\* ---------------------------------------------------------------------------
Streaming == destination = "-"

Spawned(k) == pc[k] # "unborn"

\* fetch_chunk of process k has returned.
Returned(k) == pc[k] \in {"returned", "exited"}

\* Process k has ended (its output buffer is flushed).
Ended(k) == pc[k] = "exited"

MainFinalizing == mpc \in {"l195", "done_ok", "done_fail"}

\* What the destination holds: the output stream, the final path after a
\* success, the staging path before.
DestinationBytes ==
    IF Streaming THEN stdout
    ELSE IF mpc = "done_ok" THEN final.data ELSE staging.data

\* The segments 0..m-1 of the object, concatenated.
RECURSIVE SegmentsUpTo(_)
SegmentsUpTo(m) ==
    IF m = 0 THEN <<>>
    ELSE SegmentsUpTo(m - 1) \o RangeBytes(m - 1, NumSegs, file_size)

\* Processes with a ranged GET outstanding.
Fetching == {k \in Segs : pc[k] = "l109"}

\* Processes that hold a buffer slot: started and not yet past line 134.
HoldingBuffer == {k \in Segs : Spawned(k) /\ app_releases[k] = 0}

\* Processes that hold a request slot: started and not yet released it.
HoldingRequest == {k \in Segs : Spawned(k) /\ req_releases[k] = 0}

\* ---------------------------------------------------------------------------
\* C1
\* ---------------------------------------------------------------------------

\* Writes are chained: a segment's write has begun only if its predecessor's
\* write is complete, and at most one write is in progress.
WritesChained ==
    /\ \A k \in Segs : (k > 0 /\ wstate[k] # "none") => wstate[k - 1] = "done"
    /\ Cardinality({k \in Segs : wstate[k] = "writing"}) <= 1

\* C1: in every interleaving, the write of segment n > 0 to the destination
\* starts only after the write of segment n-1 has completed; at most one
\* process writes at any instant.
C1_WritesInSegmentOrder == WritesChained

\* ---------------------------------------------------------------------------
\* C2
\* ---------------------------------------------------------------------------

\* C2: once main has reported success and every process has ended, the
\* destination holds the segments 0..N-1, each once, in ascending order.
C2_SuccessHoldsObject ==
    (mpc = "done_ok" /\ \A k \in Segs : Ended(k))
        => /\ DestinationBytes = SegmentsUpTo(NumSegs)
           /\ Len(DestinationBytes) = file_size

\* ---------------------------------------------------------------------------
\* C3
\* ---------------------------------------------------------------------------
FinalAbsentOrComplete ==
    ~Streaming => (~final.exists \/ final.data = ObjectBytes(file_size))

\* The final path changes only by the rename of line 197, when every segment
\* has been written.
FinalChangesOnlyOnSuccess ==
    final' # final =>
        /\ mpc = "l195" /\ mpc' = "done_ok"
        /\ \A k \in Segs : wstate[k] = "done"
        /\ final' = File(ObjectBytes(file_size))

\* C3: for a file destination whose final path is absent or complete at the
\* start, the final path is absent or complete in every state, and it changes
\* only by the rename that follows N written segments.
C3_FinalPathAtomic ==
    [](FinalAbsentOrComplete) /\ [][FinalChangesOnlyOnSuccess]_vars

\* A successful transfer has renamed the staging file over an absent final
\* path; and a failed one has left the final path absent.
C3_Witness ==
    /\ ~Streaming
    /\ mpc = "done_ok"
    /\ NumSegs >= 2
    /\ final = File(ObjectBytes(file_size))
    /\ ~staging.exists

\* ---------------------------------------------------------------------------
\* C4
\* ---------------------------------------------------------------------------

\* C4: when main's acquire of the last token has returned, every started
\* process has returned from fetch_chunk.
C4_JoinAwaitsAll ==
    MainFinalizing => \A k \in Segs : Spawned(k) => Returned(k)

\* ---------------------------------------------------------------------------
\* C5
\* ---------------------------------------------------------------------------

\* C5: for a file destination, once main has finalized a failed transfer and
\* every started process has ended, no staging file exists.
C5_StagingRemovedOnFailure ==
    (/\ ~Streaming
     /\ mpc = "done_fail"
     /\ \A k \in Segs : Spawned(k) => Ended(k))
        => ~staging.exists

\* ---------------------------------------------------------------------------
\* C6
\* ---------------------------------------------------------------------------
FirstFailureSticky ==
    first_failure # {} =>
        /\ first_failure' = first_failure
        /\ \A k \in Segs : status'[k] # status[k] => status'[k] = "failed"

\* C6: once status[-1] is set it never changes, and from then on set_state
\* stores no state other than 'failed'.
C6_FirstFailureSticky == [][FirstFailureSticky]_vars

\* After the first failure, another process has failed as well, a third has
\* unwound by PriorErrors, and the first failure is still the recorded one.
C6_Witness ==
    \E a, b, c \in Segs :
        /\ a # b /\ b # c /\ a # c
        /\ first_failure = {a}
        /\ status[a] = "failed" /\ status[b] = "failed"
        /\ Ended(c) /\ status[c] \notin {"failed", "succeeded"}

\* ---------------------------------------------------------------------------
\* C7
\* ---------------------------------------------------------------------------

\* C7: a process releases each slot at most once while it runs, and has
\* released each exactly once when fetch_chunk has returned.
C7_SlotsReleasedOnce ==
    \A k \in Segs :
        /\ req_releases[k] <= 1
        /\ app_releases[k] <= 1
        /\ Returned(k) => (req_releases[k] = 1 /\ app_releases[k] = 1)

\* Three processes have returned: one after a successful write, one after a
\* failed fetch, one unwound by PriorErrors after it had released its request
\* slot at line 115.
C7_Witness ==
    \E a, b, c \in Segs :
        /\ Returned(a) /\ Returned(b) /\ Returned(c)
        /\ status[a] = "succeeded"
        /\ status[b] = "failed" /\ ~released[b]
        /\ status[c] \in {"waiting", "concatenating"} /\ released[c]

\* ---------------------------------------------------------------------------
\* C8
\* ---------------------------------------------------------------------------

MainHoldsBuffer == IF mpc = "l186" THEN 1 ELSE 0

\* C9: the processes that have not released their buffer slot number at most
\* MAX_PENDING_APPENDS, the counter stays in 0..MAX_PENDING_APPENDS, and the
\* slots held and the slots free add up to MAX_PENDING_APPENDS.
C9_BufferSlotsBounded ==
    /\ Cardinality(HoldingBuffer) <= MAX_PENDING_APPENDS
    /\ appends_semaphore \in 0..MAX_PENDING_APPENDS
    /\ appends_semaphore + Cardinality(HoldingBuffer) + MainHoldsBuffer
           = MAX_PENDING_APPENDS

\* All buffer slots are taken again after a process has given one back.
C9_Witness ==
    /\ Cardinality(HoldingBuffer) = MAX_PENDING_APPENDS
    /\ appends_semaphore = 0
    /\ \E k \in Segs : app_releases[k] = 1

\* ---------------------------------------------------------------------------
\* C10
\* ---------------------------------------------------------------------------

\* C10: for an object of size 0 there are no segments, no process is started
\* and main ends with success, without an error exit.
C10_EmptyObjectSucceeds ==
    file_size = 0 =>
        /\ NumSegs = 0
        /\ mpc \notin {"crashed", "done_fail"}
        /\ mpc = "done_ok" => DestinationBytes = <<>>

\* ---------------------------------------------------------------------------
\* C11
\* ---------------------------------------------------------------------------

\* main takes an admission slot or starts a process in this step.
MainAdmits ==
    \/ mpc = "l170" /\ mpc' = "l178"
    \/ mpc = "l178" /\ mpc' = "l186"
    \/ \E k \in Segs : pc[k] = "unborn" /\ pc'[k] # "unborn"

\* C11 as stated: once status[-1] is set, no further segment is admitted and
\* no further process is started, whether or not admission slots are free.
C11_NoAdmissionAfterFailure == [][first_failure # {} => ~MainAdmits]_vars

\* main reads status[-1] only at lines 172 and 180, after an acquire has
\* timed out; a read that finds it set makes `error` true, and with `error`
\* true main admits nothing and its next step from the loop is the break.
ErrorReadEndsLoop ==
    /\ (mpc \in {"l172", "l180"} /\ mpc' # mpc)
           => (error' <=> first_failure # {})
    /\ error => ~MainAdmits
    /\ (error /\ mpc \in {"l170", "l178"} /\ mpc' # mpc) => mpc' = "l194"

\* C11, amended: the launch loop exits at the first admission poll that times
\* out after status[-1] is set; once main has read the flag it admits no
\* segment and starts no process.
C11_LoopExitsOnTimedOutPoll == [][ErrorReadEndsLoop]_vars

\* main has left the loop on the flag with segments still to start.
C11_Witness ==
    /\ mpc = "l194"
    /\ error /\ ~timeout
    /\ first_failure # {}
    /\ n_loop < NumSegs

\* ---------------------------------------------------------------------------
\* C12
\* ---------------------------------------------------------------------------

\* A process puts bytes into the destination in this step: the write of
\* line 66, or the flush of its output buffer.
TaskWritesBytes ==
    \/ stdout' # stdout
    \/ \E k \in Segs :
          /\ pc[k] = "l66" /\ pc'[k] # "l66"
          /\ (staging'.data # staging.data \/ final'.data # final.data)

\* C12 as stated: once status[-1] is set no process writes bytes to the
\* destination, and a process that has returned has released its buffer slot.
C12_NoWriteAfterFailure ==
    /\ [][first_failure # {} => ~TaskWritesBytes]_vars
    /\ [](\A k \in Segs : Returned(k) => app_releases[k] = 1)

\* The lines at which fetch_chunk calls set_state with a state other than
\* 'failed'.
SetStateLines == {"l104", "l107", "l118", "l120", "l125"}

\* Once status[-1] is set, a set_state call with a state other than 'failed'
\* stores nothing and takes the process to its finally clause.
UnwindsAtNextSetState ==
    first_failure # {} =>
        \A k \in Segs :
            (pc[k] \in SetStateLines /\ pc'[k] # pc[k])
                => (pc'[k] = "l131" /\ status'[k] = status[k])

\* Process k is past its try block without 'succeeded' or 'failed' stored: it
\* has unwound by PriorErrors.
Unwound(k) ==
    /\ pc[k] \in {"l131", "l134", "l135", "returned", "exited"}
    /\ status[k] \notin {"succeeded", "failed"}

\* A process that unwound before it had passed line 120 has written nothing,
\* and every unwound process that has returned has released its buffer slot.
UnwoundSkipsWrite ==
    \A k \in Segs :
        Unwound(k) =>
            /\ status[k] # "concatenating" => (wstate[k] = "none" /\ buf[k] = <<>>)
            /\ Returned(k) => app_releases[k] = 1

\* C12, amended: once status[-1] is set, a running process unwinds by
\* PriorErrors at its next set_state call with a state other than 'failed'
\* and still releases its buffer slot; a process that has not passed
\* set_state 'concatenating' skips its write, one that has passed it
\* completes its write first.
C12_UnwindAtNextSetState ==
    [][UnwindsAtNextSetState]_vars /\ [](UnwoundSkipsWrite)

\* One process has unwound before its write and has given back its buffer
\* slot; another has written its segment and unwound at 'succeeded'.
C12_Witness ==
    \E a, b \in Segs :
        /\ first_failure # {}
        /\ Returned(a) /\ status[a] = "waiting" /\ wstate[a] = "none"
        /\ app_releases[a] = 1
        /\ Returned(b) /\ status[b] = "concatenating" /\ wstate[b] = "done"

\* ---------------------------------------------------------------------------
\* C13
\* ---------------------------------------------------------------------------

\* A process stores 'succeeded' in this step.
TaskSucceeds ==
    \E k \in Segs : status'[k] = "succeeded" /\ status[k] # "succeeded"

\* C13: once main has detected the watchdog timeout it starts no further
\* process, no running process writes to the destination or becomes
\* 'succeeded', and main does not report success.
C13_TimeoutAborts ==
    /\ [][timeout => (~MainAdmits /\ ~TaskWritesBytes /\ ~TaskSucceeds)]_vars
    /\ [](timeout => mpc # "done_ok")

\* ---------------------------------------------------------------------------
\* The steps of main and of a process, grouped
\* ---------------------------------------------------------------------------

\* A step of main.
MainNext ==
    \/ main_l160
    \/ main_l170_acquire
    \/ main_l170_poll
    \/ main_l172
    \/ main_l176_break
    \/ main_l178_acquire
    \/ main_l178_poll
    \/ main_l180
    \/ main_l184_break
    \/ main_l186_spawn
    \/ main_l194_none
    \/ main_l194_acquire
    \/ main_l196_success
    \/ main_l201_failure

\* The ranged GET of process k completes, with its bytes or with an error.
GetCompletes(k) == fetch_chunk_l109_ok(k) \/ fetch_chunk_l109_error(k)

\* A step of process k other than the completion of its GET.
TaskNextExceptGet(k) ==
    \/ fetch_chunk_l104(k)
    \/ fetch_chunk_l107(k)
    \/ fetch_chunk_l114(k)
    \/ fetch_chunk_l118(k)
    \/ fetch_chunk_l119(k)
    \/ fetch_chunk_l120(k)
    \/ stream_chunk(k)
    \/ concatenate_chunk_open(k)
    \/ concatenate_chunk_write(k)
    \/ concatenate_chunk_error(k)
    \/ fetch_chunk_l125(k)
    \/ fetch_chunk_l129(k)
    \/ fetch_chunk_l131(k)
    \/ fetch_chunk_l134(k)
    \/ fetch_chunk_l135(k)
    \/ process_exit(k)

\* A step of process k.
TaskNext(k) == GetCompletes(k) \/ TaskNextExceptGet(k)

\* Main has ended: success, failure exit, or death by an exception.
MainEnded == mpc \in {"done_ok", "done_fail", "crashed"}

\* ---------------------------------------------------------------------------
\* C14
\* ---------------------------------------------------------------------------

\* Some step can be taken that is not the completion of a ranged GET.
ProgressWithoutGet ==
    ENABLED (MainNext \/ \E k \in Segs : TaskNextExceptGet(k))

\* C14: when the watchdog has tripped while ranged GETs are outstanding, main
\* terminates without waiting for them; so as long as main has not ended,
\* some step other than the completion of a GET can be taken.
C14_TerminatesDespiteStuckFetch ==
    (timeout /\ Fetching # {} /\ ~MainEnded) => ProgressWithoutGet

\* ---------------------------------------------------------------------------
\* C15
\* ---------------------------------------------------------------------------

\* Fair scheduling: main takes a step when it can, some process takes a step
\* when one can, and an outstanding ranged GET completes (its two completions
\* have the same guard, so fairness to one leaves no GET outstanding forever;
\* which of the two happens stays open).  A write is a step of its process.
\* Every process takes finitely many steps, so no process is passed over
\* forever.
FairSpec ==
    /\ Init
    /\ [][Next]_vars
    /\ WF_vars(MainNext)
    /\ WF_vars(\E k \in Segs : TaskNextExceptGet(k))
    /\ WF_vars(\E k \in Segs : fetch_chunk_l109_error(k))

\* Main has reached the end of its finalization and every started process
\* has ended.
AllEnded ==
    /\ mpc \in {"done_ok", "done_fail"}
    /\ \A k \in Segs : Spawned(k) => Ended(k)

\* C15: for N >= 1, under fair scheduling, every started process ends, every
\* wait on a token returns, and main reaches and completes its finalization.
C15_NoDeadlock == <>(NumSegs >= 1 => AllEnded)

\* A transfer has ended in which one process failed, one unwound by
\* PriorErrors while its successor was waiting for its token, and every
\* process has ended.
C15_Witness ==
    /\ AllEnded
    /\ \E a, b, c \in Segs :
          /\ status[a] = "failed"
          /\ b < c
          /\ status[b] \in {"removing temporary file", "fetching"}
          /\ status[c] = "waiting"

\* ---------------------------------------------------------------------------
\* C16
\* ---------------------------------------------------------------------------

\* C16: main ends with success if and only if status[-1] is unset and each of
\* the N segments has status 'succeeded'; in every other outcome it ends with
\* a non-zero exit status.
C16_SuccessIffAllSucceeded ==
    MainEnded =>
        (mpc = "done_ok"
            <=> (/\ first_failure = {}
                 /\ \A k \in Segs : status[k] = "succeeded"))

\* ---------------------------------------------------------------------------
\* C17: the segment plan, computed for every size of a range
\* ---------------------------------------------------------------------------

\* The size is probed (s3cp.py:150-158); no process exists yet.
PlanInit ==
    /\ file_size \in 1..MaxPlanSize
    /\ destination = FILE_DESTINATION
    /\ mpc = "plan"
    /\ n_loop = 0
    /\ error = FALSE
    /\ timeout = FALSE
    /\ last_semaphore = {}
    /\ requests_semaphore = MAX_CONCURRENT_REQUESTS
    /\ appends_semaphore = MAX_PENDING_APPENDS
    /\ token = [k \in Segs |-> 0]
    /\ status = [k \in Segs |-> "absent"]
    /\ first_failure = {}
    /\ pc = [k \in Segs |-> "unborn"]
    /\ released = [k \in Segs |-> FALSE]
    /\ segment_bytes = [k \in Segs |-> <<>>]
    /\ task_last = [k \in Segs |-> {}]
    /\ fh = [k \in Segs |-> "none"]
    /\ buf = [k \in Segs |-> <<>>]
    /\ staging = Absent
    /\ final = Absent
    /\ stdout = <<>>
    /\ req_releases = [k \in Segs |-> 0]
    /\ app_releases = [k \in Segs |-> 0]
    /\ wstate = [k \in Segs |-> "none"]

\* Lines 99-103 for segment n_loop: first, last and the range they name.
PlanSegment ==
    /\ mpc = "plan"
    /\ n_loop < NumSegs
    /\ segment_bytes' = [segment_bytes EXCEPT
                             ![n_loop] = RangeBytes(n_loop, NumSegs, file_size)]
    /\ n_loop' = n_loop + 1
    /\ UNCHANGED <<file_size, destination, mpc, error, timeout,
                   last_semaphore, requests_semaphore, appends_semaphore,
                   token, status, first_failure, pc, released, task_last, fh,
                   buf, fileVars, ghostVars>>

PlanSpec == PlanInit /\ [][PlanSegment]_vars

\* The ranges of the segments 0..m-1, concatenated.
RECURSIVE PlannedUpTo(_)
PlannedUpTo(m) ==
    IF m = 0 THEN <<>> ELSE PlannedUpTo(m - 1) \o segment_bytes[m - 1]

\* C17: N = ceil(size / MAX_SEGMENT_SIZE); segment n starts at
\* floor(size*n/N) and ends before floor(size*(n+1)/N); the segments follow
\* one another from offset 0, each has at most MAX_SEGMENT_SIZE bytes, their
\* sizes differ by at most one byte, and together they are the bytes
\* 0..size-1.
C17_PlanPartitions ==
    /\ (NumSegs - 1) * MAX_SEGMENT_SIZE < file_size
    /\ file_size <= NumSegs * MAX_SEGMENT_SIZE
    /\ \A n \in 0..(n_loop - 1) :
          LET seg == segment_bytes[n]
          IN  /\ Len(seg) >= 1
              /\ seg[1] = (file_size * n) \div NumSegs
              /\ seg[Len(seg)] = ((file_size * (n + 1)) \div NumSegs) - 1
              /\ Len(seg) <= MAX_SEGMENT_SIZE
              /\ \A m \in 0..(n_loop - 1) :
                    Len(seg) - Len(segment_bytes[m]) \in {-1, 0, 1}
    /\ PlannedUpTo(n_loop) = ObjectBytes(Len(PlannedUpTo(n_loop)))
    /\ n_loop = NumSegs => Len(PlannedUpTo(n_loop)) = file_size

\* ---------------------------------------------------------------------------
\* C18
\* ---------------------------------------------------------------------------

\* set_state 'failed' (line 129) stores 'failed' for its own segment and never
\* raises; it sets status[-1] to its segment when status[-1] is unset and
\* leaves it alone otherwise; and nothing else changes status[-1].
FirstErrorWins ==
    /\ \A k \in Segs :
          (pc[k] = "l129" /\ pc'[k] # pc[k])
              => /\ status'[k] = "failed"
                 /\ first_failure' =
                        IF first_failure = {} THEN {k} ELSE first_failure
    /\ first_failure' # first_failure
           => /\ first_failure = {}
              /\ \E k \in Segs : pc[k] = "l129" /\ first_failure' = {k}

\* C18: status[-1] is set once, by the first set_state 'failed', to that
\* segment's index; every later 'failed' records its own segment's status,
\* leaves status[-1] unchanged and does not raise PriorErrors.
C18_FirstErrorWins == [][FirstErrorWins]_vars

\* Two processes have failed; the one with the higher index was first.
C18_Witness ==
    \E a, b \in Segs :
        /\ b < a
        /\ first_failure = {a}
        /\ status[a] = "failed" /\ status[b] = "failed"
        /\ Returned(a) /\ Returned(b)

\* ---------------------------------------------------------------------------
\* C19
\* ---------------------------------------------------------------------------

\* Process k is between the release of line 115 and the end of its try
\* block: waiting for its predecessor, or concatenating.
WaitingOrConcatenating(k) ==
    pc[k] \in {"l118", "l119", "l120", "l122", "l124", "l66", "l125"}

C20_StreamIsPrefix ==
    Streaming => \E m \in 0..NumSegs : stdout = SegmentsUpTo(m)

====
